---- MODULE Spec2Model ----
(***************************************************************************)
(* A model of generate_cv.py: one run of main(), from the parsed command   *)
(* line to process exit.  The program is straight-line; the run is split   *)
(* into one step per call that reads or writes the outside world (the      *)
(* filesystem, the `which` probes, the browser subprocess), so that the    *)
(* intermediate filesystem states are observable.  Each outcome the        *)
(* outside world can give (an OSError, a non-zero return code, ...) is a   *)
(* nondeterministic choice of the step that meets it.                      *)
(***************************************************************************)
EXTENDS Integers, Sequences, FiniteSets, TLC

\* Largest number of pages of a browser-produced PDF.
MaxPages == 2

-----------------------------------------------------------------------------
(* Paths: pathlib.Path as parent directory, stem and last suffix.          *)

MkPath(parent, stem, suffix) == [parent |-> parent, stem |-> stem, suffix |-> suffix]

\* Path.name
Name(p) == p.stem \o p.suffix

\* Path(s) for the strings the command lines of the model hold.
PathOf(s) ==
  CASE s = "out.pdf"       -> MkPath(".", "out", ".pdf")
    [] s = "export/cv.pdf" -> MkPath("export", "cv", ".pdf")
    [] s = "default"       -> MkPath(".", "default", "")
    [] s = ""              -> MkPath(".", "", "")
    [] s = "out.html"      -> MkPath(".", "out", ".html")
    [] s = "resume.yaml"   -> MkPath(".", "resume", ".yaml")
    [] s = "template.html" -> MkPath(".", "template", ".html")

\* Path.with_suffix(suffix) where suffix is ".tmp.pdf": the last suffix of p
\* is dropped and ".tmp.pdf" appended to the name; the last suffix of the
\* result is ".pdf".
with_suffix_tmp_pdf(p) == MkPath(p.parent, p.stem \o ".tmp", ".pdf")

\* directory / filename
Join(dir, stem, suffix) == MkPath(dir, stem, suffix)

NoPath == MkPath("", "", "")

-----------------------------------------------------------------------------
(* YAML values: strings, null and mappings (functions from keys).          *)

Str(s)  == [t |-> "str", s |-> s, m |-> <<>>]
Null    == [t |-> "null", s |-> "", m |-> <<>>]
Map(f)  == [t |-> "map", s |-> "", m |-> f]
NoKeys  == <<>>

\* dict.get(key, default)
Get(m, key, default) == IF key \in DOMAIN m THEN m[key] ELSE default

\* The mappings under the key `meta` the data files of the model hold.
MetaMaps ==
  { NoKeys,
    ("description" :> Str("Resume of Jane")),
    ("keywords" :> Str("cv, python")),
    ("description" :> Str("Resume of Jane") @@ "keywords" :> Str("cv, python")) }

\* The values of the key `meta`: a mapping, or null (`meta:` with no value).
MetaValues == {Map(f) : f \in MetaMaps} \cup {Null}

Names  == {"Jane Doe"}
Titles == {"Engineer"}

\* A function with the keys of keys, from the per-key value sets.
MapsWith(keys) ==
  [keys -> {Str(n) : n \in Names} \cup {Str(t) : t \in Titles} \cup MetaValues]

TopMaps ==
  { f \in UNION {MapsWith(ks) : ks \in SUBSET {"name", "title", "meta"}} :
      /\ ("name" \in DOMAIN f => f["name"] \in {Str(n) : n \in Names})
      /\ ("title" \in DOMAIN f => f["title"] \in {Str(t) : t \in Titles})
      /\ ("meta" \in DOMAIN f => f["meta"] \in MetaValues) }

\* What is at the data path: nothing, a file that cannot be opened, or a
\* file whose text is invalid YAML, empty, a scalar, a list or a mapping.
DataFiles ==
  {[st |-> "missing", text |-> "", map |-> NoKeys],
   [st |-> "unreadable", text |-> "", map |-> NoKeys]}
  \cup {[st |-> "file", text |-> x, map |-> NoKeys] :
          x \in {"invalid", "empty", "scalar", "list"}}
  \cup {[st |-> "file", text |-> "map", map |-> f] : f \in TopMaps}

\* yaml.safe_load on a file that parses: the top-level value.
safe_load(file) ==
  CASE file.text = "empty"  -> [t |-> "none", m |-> NoKeys]
    [] file.text = "scalar" -> [t |-> "scalar", m |-> NoKeys]
    [] file.text = "list"   -> [t |-> "list", m |-> NoKeys]
    [] file.text = "map"    -> [t |-> "map", m |-> file.map]

Unset == [t |-> "unset", m |-> NoKeys]

-----------------------------------------------------------------------------
(* The command line.                                                       *)

\* The values of an explicit --pdf PATH.
PdfValues == {"default", "", "out.pdf", "export/cv.pdf"}

CmdLines ==
  [data : {"resume.yaml"},
   output : {"", "out.html"},          \* "": no -o
   pdfForm : {"absent"},
   pdfValue : {""}]
  \cup
  [data : {"resume.yaml"},
   output : {"", "out.html"},
   pdfForm : {"novalue"},
   pdfValue : {""}]
  \cup
  [data : {"resume.yaml"},
   output : {"", "out.html"},
   pdfForm : {"explicit"},
   pdfValue : PdfValues]

\* parser.parse_args(): --pdf has nargs='?' and const='default'; absent it is
\* None (given = FALSE).
parse_args(c) ==
  [data |-> PathOf(c.data),
   template |-> PathOf("template.html"),
   output |-> [given |-> c.output # "",
               path |-> IF c.output # "" THEN PathOf(c.output) ELSE NoPath],
   pdf |-> CASE c.pdfForm = "absent"   -> [given |-> FALSE, v |-> ""]
             [] c.pdfForm = "novalue"  -> [given |-> TRUE, v |-> "default"]
             [] c.pdfForm = "explicit" -> [given |-> TRUE, v |-> c.pdfValue]]

\* Python's truth value of args.pdf: None and '' are false.
Truthy(a) == a.given /\ a.v # ""

-----------------------------------------------------------------------------
(* The state.                                                              *)

VARIABLES
  cmdline,       \* the command line (input)
  args,          \* parse_args() of it
  dataFile,      \* what is at args.data (input)
  template,      \* "missing", "bad" (rendering raises) or "ok" (input)
  installed,     \* the browser binaries `which` finds (input)
  htmlPrev,      \* the file at the HTML destination before the run (input)
  htmlFile,      \* the file at the HTML destination
  tempDir,       \* <tempdir>/cv_generation: "absent" or "dir"
  exportDir,     \* ./export: "absent", "dir" or "file" (a regular file)
  pdfFile,       \* the file at pdf_path
  tmpPdfFile,    \* the file at pdf_path.with_suffix('.tmp.pdf')
  writes,        \* the filesystem writes performed so far
  pc,            \* the next step of main()
  exitCode,      \* the process exit status; -1 while running
  stderr,        \* the messages printed to sys.stderr
  data,          \* main: data
  html_content,  \* main: html_content
  output_path,   \* main: output_path
  pdf_path,      \* main: pdf_path
  renderCalls,   \* calls of render_template
  chromium_cmd,  \* convert_to_pdf: chromium_cmd ("" is None)
  probe,         \* convert_to_pdf: index of the next bin_name of the loop
  probed,        \* the bin_names handed to `which`, in order
  browserRuns,   \* subprocess.run(cmd) calls
  browserRc,     \* result.returncode; -1 before subprocess.run(cmd) returns
  metaRuns,      \* calls of add_pdf_metadata
  origPdf,       \* the file at pdf_path when add_pdf_metadata was entered
  writer         \* add_pdf_metadata: the PdfWriter (pages copied, metadata)

inputs == <<cmdline, args, dataFile, template, installed, htmlPrev>>
fs     == <<htmlFile, tempDir, exportDir, pdfFile, tmpPdfFile, writes>>
proc   == <<pc, exitCode, stderr>>
locals == <<data, html_content, output_path, pdf_path, renderCalls>>
pdfv   == <<chromium_cmd, probe, probed, browserRuns, browserRc, metaRuns,
            origPdf, writer>>
vars   == <<inputs, fs, proc, locals, pdfv>>

\* chromium_bins
chromium_bins == <<"chromium", "chromium-browser", "google-chrome", "chrome">>

\* PDF files.  info is the document information dictionary.
NoInfo == [Title |-> "", Author |-> "", Subject |-> "", Keywords |-> "", Creator |-> ""]
Absent == [kind |-> "absent", pages |-> 0, info |-> NoInfo]
\* A file that is no complete PDF: opened for writing and not written whole.
Truncated == [kind |-> "truncated", pages |-> 0, info |-> NoInfo]
Pdf(n, info) == [kind |-> "pdf", pages |-> n, info |-> info]
NoWriter == Pdf(0, NoInfo)

\* The messages of the program, by the handler that prints them.
MsgYamlNotFound     == "Error: YAML file not found"
MsgYamlParse        == "Error parsing YAML"
MsgTemplateNotFound == "Error: Template file not found"
MsgRender           == "Error rendering template"
MsgSaveHtml         == "Error saving HTML"
MsgNoBrowser        == "Warning: Chromium/Chrome not found. Skipping PDF conversion."
MsgConvert          == "Error converting to PDF"
MsgPdfException     == "Error during PDF conversion"
MsgMetadata         == "Warning: Could not add PDF metadata"
\* The interpreter's report of an exception no handler caught.
MsgTraceback        == "Traceback (most recent call last)"

Init ==
  /\ cmdline \in CmdLines
  /\ args = parse_args(cmdline)
  /\ dataFile \in DataFiles
  /\ template \in {"missing", "bad", "ok"}
  /\ installed \in SUBSET {chromium_bins[k] : k \in 1..Len(chromium_bins)}
  /\ tempDir \in {"absent", "dir"}
  /\ exportDir \in {"absent", "dir", "file"}
  /\ htmlPrev \in {"absent", "old"}
  \* a file in <tempdir>/cv_generation needs the directory
  /\ (cmdline.output = "" /\ tempDir = "absent") => htmlPrev = "absent"
  /\ htmlFile = htmlPrev
  /\ pdfFile = Absent
  /\ tmpPdfFile = Absent
  /\ writes = {}
  /\ pc = "load_yaml"
  /\ exitCode = -1
  /\ stderr = {}
  /\ data = Unset
  /\ html_content = ""
  /\ output_path = NoPath
  /\ pdf_path = NoPath
  /\ renderCalls = 0
  /\ chromium_cmd = ""
  /\ probe = 1
  /\ probed = <<>>
  /\ browserRuns = 0
  /\ browserRc = -1
  /\ metaRuns = 0
  /\ origPdf = Absent
  /\ writer = NoWriter

\* print(msg, file=sys.stderr); sys.exit(code)
Die(msg, code) ==
  /\ stderr' = stderr \cup {msg}
  /\ exitCode' = code
  /\ pc' = "done"

\* An exception no handler catches: the interpreter prints the traceback and
\* the process exits with status 1.
Uncaught == Die(MsgTraceback, 1)

\* main() returns: the process exits with status 0.
Return ==
  /\ exitCode' = 0
  /\ pc' = "done"
  /\ UNCHANGED stderr

\* a caught error of the PDF step: print(msg, file=sys.stderr), then return
\* from convert_to_pdf to the end of main().
Warn(msg) ==
  /\ stderr' = stderr \cup {msg}
  /\ exitCode' = 0
  /\ pc' = "done"

-----------------------------------------------------------------------------
(* main(): data loading, rendering, the HTML file.                         *)

\* load_yaml with handlers that report the error and return an empty mapping
\* instead of terminating the process.
LoadYaml_ReturnsEmpty ==
  /\ pc = "load_yaml"
  /\ \/ /\ dataFile.st = "missing"
        /\ stderr' = stderr \cup {MsgYamlNotFound}
        /\ data' = [t |-> "map", m |-> NoKeys]
        /\ pc' = "resources"
        /\ UNCHANGED exitCode
     \/ /\ dataFile.st = "unreadable"
        /\ Uncaught
        /\ UNCHANGED data
     \/ /\ dataFile.st = "file"
        /\ dataFile.text = "invalid"
        /\ stderr' = stderr \cup {MsgYamlParse}
        /\ data' = [t |-> "map", m |-> NoKeys]
        /\ pc' = "resources"
        /\ UNCHANGED exitCode
     \/ /\ dataFile.st = "file"
        /\ dataFile.text # "invalid"
        /\ data' = safe_load(dataFile)
        /\ pc' = "resources"
        /\ UNCHANGED <<exitCode, stderr>>
  /\ UNCHANGED <<inputs, fs, html_content, output_path, pdf_path, renderCalls, pdfv>>

\* data = load_yaml(args.data)
LoadYaml ==
  /\ pc = "load_yaml"
  /\ \/ /\ dataFile.st = "missing"              \* FileNotFoundError
        /\ Die(MsgYamlNotFound, 1)
        /\ UNCHANGED data
     \/ /\ dataFile.st = "unreadable"           \* PermissionError: not caught
        /\ Uncaught
        /\ UNCHANGED data
     \/ /\ dataFile.st = "file"
        /\ dataFile.text = "invalid"            \* yaml.YAMLError
        /\ Die(MsgYamlParse, 1)
        /\ UNCHANGED data
     \/ /\ dataFile.st = "file"
        /\ dataFile.text # "invalid"
        /\ data' = safe_load(dataFile)
        /\ pc' = "resources"
        /\ UNCHANGED <<exitCode, stderr>>
  /\ UNCHANGED <<inputs, fs, html_content, output_path, pdf_path, renderCalls, pdfv>>

\* (args.template.parent / 'resources').absolute().as_uri()
resources_path == "file:///cwd/resources"

\* data['resources_path'] = resources_path: item assignment, a TypeError on
\* None, a scalar or a list.
AddResources ==
  /\ pc = "resources"
  /\ \/ /\ data.t = "map"
        /\ data' = [data EXCEPT !.m = ("resources_path" :> Str(resources_path)) @@ data.m]
        /\ pc' = "render"
        /\ UNCHANGED <<exitCode, stderr>>
     \/ /\ data.t # "map"
        /\ Uncaught
        /\ UNCHANGED data
  /\ UNCHANGED <<inputs, fs, html_content, output_path, pdf_path, renderCalls, pdfv>>

\* template.render(**data) of the template <h1>{{ name }}</h1>: an undefined
\* name renders as the empty string.
Render(m) == "<h1>" \o Get(m, "name", Str("")).s \o "</h1>"

\* html_content = render_template(args.template, data)
RenderTemplate ==
  /\ pc = "render"
  /\ renderCalls' = renderCalls + 1
  /\ \/ /\ template = "missing"                \* not template_path.is_file()
        /\ Die(MsgTemplateNotFound, 1)
        /\ UNCHANGED html_content
     \/ /\ template = "bad"                    \* except Exception
        /\ Die(MsgRender, 1)
        /\ UNCHANGED html_content
     \/ /\ template = "ok"
        /\ html_content' = Render(data.m)
        /\ pc' = "output_path"
        /\ UNCHANGED <<exitCode, stderr>>
  /\ UNCHANGED <<inputs, fs, data, output_path, pdf_path, pdfv>>

\* Determine output path: args.output, or <tempdir>/cv_generation/<stem>.html
\* after temp_dir.mkdir(exist_ok=True), whose OSError nothing catches.
DetermineOutput ==
  /\ pc = "output_path"
  /\ \/ /\ args.output.given
        /\ output_path' = args.output.path
        /\ pc' = "save_open"
        /\ UNCHANGED <<tempDir, writes, exitCode, stderr>>
     \/ /\ ~args.output.given
        /\ tempDir = "dir"
        /\ output_path' = Join("cv_generation", args.data.stem, ".html")
        /\ pc' = "save_open"
        /\ UNCHANGED <<tempDir, writes, exitCode, stderr>>
     \/ /\ ~args.output.given
        /\ tempDir = "absent"
        /\ tempDir' = "dir"
        /\ writes' = writes \cup {"tempdir"}
        /\ output_path' = Join("cv_generation", args.data.stem, ".html")
        /\ pc' = "save_open"
        /\ UNCHANGED <<exitCode, stderr>>
     \/ /\ ~args.output.given
        /\ tempDir = "absent"                  \* mkdir raises
        /\ Uncaught
        /\ UNCHANGED <<tempDir, writes, output_path>>
  /\ UNCHANGED <<inputs, htmlFile, exportDir, pdfFile, tmpPdfFile, data,
                 html_content, pdf_path, renderCalls, pdfv>>

\* save_html: open(output_path, 'w') creates or truncates the file.
SaveOpen ==
  /\ pc = "save_open"
  /\ \/ /\ htmlFile' = ""
        /\ writes' = writes \cup {"html"}
        /\ pc' = "save_write"
        /\ UNCHANGED <<exitCode, stderr>>
     \/ /\ Die(MsgSaveHtml, 1)                 \* IOError on open
        /\ UNCHANGED <<htmlFile, writes>>
  /\ UNCHANGED <<inputs, tempDir, exportDir, pdfFile, tmpPdfFile, locals, pdfv>>

\* The prefixes of the content a failed write leaves in the file.
Prefixes(content) == {"", "<h1>"}

\* save_html: f.write(content) and the close of the file.
SaveWrite ==
  /\ pc = "save_write"
  /\ \/ /\ htmlFile' = html_content
        /\ pc' = "pdf"
        /\ UNCHANGED <<exitCode, stderr>>
     \/ /\ \E part \in Prefixes(html_content) : htmlFile' = part   \* IOError
        /\ Die(MsgSaveHtml, 1)
  /\ UNCHANGED <<inputs, tempDir, exportDir, pdfFile, tmpPdfFile, writes, locals, pdfv>>

-----------------------------------------------------------------------------
(* main(): the --pdf branch.                                               *)

\* if args.pdf: ... the destination of the PDF.  export_dir.mkdir(exist_ok=True)
\* is called in main(), outside every try: its OSError is not caught.
ResolvePdf ==
  /\ pc = "pdf"
  /\ \/ /\ ~Truthy(args.pdf)
        /\ Return
        /\ UNCHANGED <<exportDir, writes, pdf_path>>
     \/ /\ Truthy(args.pdf)
        /\ args.pdf.v = "default"
        /\ exportDir = "dir"
        /\ pdf_path' = Join("export", args.data.stem, ".pdf")
        /\ pc' = "probe"
        /\ UNCHANGED <<exportDir, writes, exitCode, stderr>>
     \/ /\ Truthy(args.pdf)
        /\ args.pdf.v = "default"
        /\ exportDir = "absent"
        /\ exportDir' = "dir"
        /\ writes' = writes \cup {"exportdir"}
        /\ pdf_path' = Join("export", args.data.stem, ".pdf")
        /\ pc' = "probe"
        /\ UNCHANGED <<exitCode, stderr>>
     \/ /\ Truthy(args.pdf)
        /\ args.pdf.v = "default"
        /\ exportDir # "dir"       \* FileExistsError on a file, or another OSError
        /\ Uncaught
        /\ UNCHANGED <<exportDir, writes, pdf_path>>
     \/ /\ Truthy(args.pdf)
        /\ args.pdf.v # "default"
        /\ pdf_path' = PathOf(args.pdf.v)
        /\ pc' = "probe"
        /\ UNCHANGED <<exportDir, writes, exitCode, stderr>>
  /\ UNCHANGED <<inputs, htmlFile, tempDir, pdfFile, tmpPdfFile, data, html_content,
                 output_path, renderCalls, pdfv>>

-----------------------------------------------------------------------------
(* convert_to_pdf                                                          *)

\* The probe loop without its `break`: the last installed candidate wins.
ProbeBrowser_NoBreak ==
  /\ pc = "probe"
  /\ probe <= Len(chromium_bins)
  /\ probed' = Append(probed, chromium_bins[probe])
  /\ \/ /\ chromium_bins[probe] \in installed
        /\ chromium_cmd' = chromium_bins[probe]
        /\ probe' = probe + 1
        /\ pc' = IF probe = Len(chromium_bins) THEN "invoke" ELSE "probe"
        /\ UNCHANGED <<exitCode, stderr>>
     \/ /\ chromium_bins[probe] \notin installed
        /\ probe' = probe + 1
        /\ pc' = IF probe = Len(chromium_bins) /\ chromium_cmd # "" THEN "invoke" ELSE "probe"
        /\ UNCHANGED <<chromium_cmd, exitCode, stderr>>
     \/ /\ Warn(MsgPdfException)
        /\ UNCHANGED <<chromium_cmd, probe>>
  /\ UNCHANGED <<inputs, fs, locals, browserRuns, browserRc, metaRuns, origPdf, writer>>

\* One turn of `for bin_name in chromium_bins`: subprocess.run(['which', bin_name]).
\* An exception of subprocess.run (no `which`, no process) is caught by the
\* `except Exception` of convert_to_pdf.
ProbeBrowser ==
  /\ pc = "probe"
  /\ probe <= Len(chromium_bins)
  /\ probed' = Append(probed, chromium_bins[probe])
  /\ \/ /\ chromium_bins[probe] \in installed      \* returncode == 0: break
        /\ chromium_cmd' = chromium_bins[probe]
        /\ pc' = "invoke"
        /\ UNCHANGED <<probe, exitCode, stderr>>
     \/ /\ chromium_bins[probe] \notin installed
        /\ probe' = probe + 1
        /\ UNCHANGED <<chromium_cmd, proc>>
     \/ /\ Warn(MsgPdfException)
        /\ UNCHANGED <<chromium_cmd, probe>>
  /\ UNCHANGED <<inputs, fs, locals, browserRuns, browserRc, metaRuns, origPdf, writer>>

\* if not chromium_cmd: the two warnings, and return.
NotFound ==
  /\ pc = "probe"
  /\ probe > Len(chromium_bins)
  /\ Warn(MsgNoBrowser)
  /\ UNCHANGED <<inputs, fs, locals, pdfv>>

\* The directory of p exists.
ParentExists(p) == p.parent = "." \/ (p.parent = "export" /\ exportDir = "dir")

\* convert_to_pdf calling add_pdf_metadata whatever the return code.
RunBrowser_IgnoresReturnCode ==
  /\ pc = "invoke"
  /\ browserRuns' = browserRuns + 1
  /\ \/ /\ Warn(MsgPdfException)
        /\ UNCHANGED <<pdfFile, writes, browserRc>>
     \/ /\ ParentExists(pdf_path)
        /\ \E n \in 1..MaxPages : pdfFile' = Pdf(n, NoInfo)
        /\ writes' = writes \cup {"pdf"}
        /\ browserRc' = 0
        /\ pc' = "add_pdf_metadata"
        /\ UNCHANGED <<exitCode, stderr>>
     \/ /\ browserRc' = 0
        /\ pc' = "add_pdf_metadata"
        /\ UNCHANGED <<pdfFile, writes, exitCode, stderr>>
     \/ /\ browserRc' = 1
        /\ stderr' = stderr \cup {MsgConvert}
        /\ pc' = "add_pdf_metadata"
        /\ UNCHANGED <<pdfFile, writes, exitCode>>
     \/ /\ ParentExists(pdf_path)
        /\ browserRc' = 1
        /\ pdfFile' = Truncated
        /\ writes' = writes \cup {"pdf"}
        /\ stderr' = stderr \cup {MsgConvert}
        /\ pc' = "add_pdf_metadata"
        /\ UNCHANGED exitCode
  /\ UNCHANGED <<inputs, htmlFile, tempDir, exportDir, tmpPdfFile, locals,
                 chromium_cmd, probe, probed, metaRuns, origPdf, writer>>

\* result = subprocess.run(cmd, ...): the browser prints the page to pdf_path.
RunBrowser ==
  /\ pc = "invoke"
  /\ browserRuns' = browserRuns + 1
  /\ \/ /\ Warn(MsgPdfException)                   \* subprocess.run raises
        /\ UNCHANGED <<pdfFile, writes, browserRc>>
     \/ /\ ParentExists(pdf_path)                  \* returncode == 0
        /\ \E n \in 1..MaxPages : pdfFile' = Pdf(n, NoInfo)
        /\ writes' = writes \cup {"pdf"}
        /\ browserRc' = 0
        /\ pc' = "add_pdf_metadata"
        /\ UNCHANGED <<exitCode, stderr>>
     \/ /\ browserRc' = 0                          \* returncode == 0, no file written
        /\ pc' = "add_pdf_metadata"
        /\ UNCHANGED <<pdfFile, writes, exitCode, stderr>>
     \/ /\ browserRc' = 1                          \* returncode != 0
        /\ Warn(MsgConvert)
        /\ UNCHANGED <<pdfFile, writes>>
     \/ /\ ParentExists(pdf_path)                  \* returncode != 0, a broken file left
        /\ browserRc' = 1
        /\ pdfFile' = Truncated
        /\ writes' = writes \cup {"pdf"}
        /\ Warn(MsgConvert)
  /\ UNCHANGED <<inputs, htmlFile, tempDir, exportDir, tmpPdfFile, locals,
                 chromium_cmd, probe, probed, metaRuns, origPdf, writer>>

-----------------------------------------------------------------------------
(* add_pdf_metadata: every exception is caught, reported as a warning, and *)
(* the function returns.                                                   *)

\* reader = PdfReader(pdf_path); writer = PdfWriter()
ReadPdf ==
  /\ pc = "add_pdf_metadata"
  /\ metaRuns' = metaRuns + 1
  /\ origPdf' = pdfFile
  /\ writer' = NoWriter
  /\ \/ /\ pdfFile.kind = "pdf"
        /\ pc' = "copy_pages"
        /\ UNCHANGED <<exitCode, stderr>>
     \/ Warn(MsgMetadata)              \* no file, no PDF, or an I/O error
  /\ UNCHANGED <<inputs, fs, locals, chromium_cmd, probe, probed, browserRuns, browserRc>>

\* for page in reader.pages: writer.add_page(page)
CopyPage ==
  /\ pc = "copy_pages"
  /\ writer.pages < origPdf.pages
  /\ \/ /\ writer' = [writer EXCEPT !.pages = @ + 1]
        /\ UNCHANGED proc
     \/ /\ Warn(MsgMetadata)
        /\ UNCHANGED writer
  /\ UNCHANGED <<inputs, fs, locals, chromium_cmd, probe, probed, browserRuns,
                 browserRc, metaRuns, origPdf>>

\* `meta.get` is an AttributeError unless meta is a mapping.
MetaIsMapping(d) == Get(d, "meta", Map(NoKeys)).t = "map"

\* The metadata with the subject always the "name - title" fallback.
Metadata_NoDescription(d) ==
  LET name     == Get(d, "name", Str("Resume")).s
      title    == Get(d, "title", Str("Resume")).s
      meta     == Get(d, "meta", Map(NoKeys)).m
      keywords == Get(meta, "keywords", Str("")).s
  IN  [Title    |-> name \o " - " \o title,
       Author   |-> name,
       Subject  |-> name \o " - " \o title,
       Keywords |-> keywords,
       Creator  |-> "CV Generator (Chromium + pypdf)"]

\* The dictionary handed to writer.add_metadata, from the data mapping d.
Metadata(d) ==
  LET name        == Get(d, "name", Str("Resume")).s
      title       == Get(d, "title", Str("Resume")).s
      meta        == Get(d, "meta", Map(NoKeys)).m
      description == Get(meta, "description", Str(name \o " - " \o title)).s
      keywords    == Get(meta, "keywords", Str("")).s
  IN  [Title    |-> name \o " - " \o title,
       Author   |-> name,
       Subject  |-> description,
       Keywords |-> keywords,
       Creator  |-> "CV Generator (Chromium + pypdf)"]

\* Extract metadata from YAML data; writer.add_metadata({...})
AddMetadata ==
  /\ pc = "copy_pages"
  /\ writer.pages = origPdf.pages
  /\ \/ /\ MetaIsMapping(data.m)
        /\ writer' = [writer EXCEPT !.info = Metadata(data.m)]
        /\ pc' = "open_temp"
        /\ UNCHANGED <<exitCode, stderr>>
     \/ /\ ~MetaIsMapping(data.m)
        /\ Warn(MsgMetadata)
        /\ UNCHANGED writer
  /\ UNCHANGED <<inputs, fs, locals, chromium_cmd, probe, probed, browserRuns,
                 browserRc, metaRuns, origPdf>>

\* The patched PDF written over pdf_path itself: open(pdf_path, 'wb').
OpenTemp_InPlace ==
  /\ pc = "open_temp"
  /\ \/ /\ pdfFile' = Truncated
        /\ writes' = writes \cup {Name(pdf_path)}
        /\ pc' = "write_temp"
        /\ UNCHANGED <<tmpPdfFile, exitCode, stderr>>
     \/ /\ Warn(MsgMetadata)
        /\ UNCHANGED <<pdfFile, tmpPdfFile, writes>>
  /\ UNCHANGED <<inputs, htmlFile, tempDir, exportDir, locals, pdfv>>

\* temp_pdf = pdf_path.with_suffix('.tmp.pdf'); open(temp_pdf, 'wb')
OpenTemp ==
  /\ pc = "open_temp"
  /\ \/ /\ tmpPdfFile' = Truncated
        /\ writes' = writes \cup {Name(with_suffix_tmp_pdf(pdf_path))}
        /\ pc' = "write_temp"
        /\ UNCHANGED <<exitCode, stderr>>
     \/ /\ Warn(MsgMetadata)
        /\ UNCHANGED <<tmpPdfFile, writes>>
  /\ UNCHANGED <<inputs, htmlFile, tempDir, exportDir, pdfFile, locals, pdfv>>

\* writer.write(f) and the close of the file
WriteTemp ==
  /\ pc = "write_temp"
  /\ \/ /\ tmpPdfFile' = writer
        /\ pc' = "replace"
        /\ UNCHANGED <<exitCode, stderr>>
     \/ /\ Warn(MsgMetadata)
        /\ UNCHANGED tmpPdfFile
  /\ UNCHANGED <<inputs, htmlFile, tempDir, exportDir, pdfFile, writes, locals, pdfv>>

\* temp_pdf.replace(pdf_path): os.replace, a rename
ReplacePdf ==
  /\ pc = "replace"
  /\ \/ /\ pdfFile' = tmpPdfFile
        /\ tmpPdfFile' = Absent
        /\ writes' = writes \cup {"replace"}
        /\ Return
     \/ /\ Warn(MsgMetadata)
        /\ UNCHANGED <<pdfFile, tmpPdfFile, writes>>
  /\ UNCHANGED <<inputs, htmlFile, tempDir, exportDir, locals, pdfv>>

-----------------------------------------------------------------------------

Next ==
  \/ LoadYaml
  \/ AddResources
  \/ RenderTemplate
  \/ DetermineOutput
  \/ SaveOpen
  \/ SaveWrite
  \/ ResolvePdf
  \/ ProbeBrowser
  \/ NotFound
  \/ RunBrowser
  \/ ReadPdf
  \/ CopyPage
  \/ AddMetadata
  \/ OpenTemp
  \/ WriteTemp
  \/ ReplacePdf

Spec == Init /\ [][Next]_vars

-----------------------------------------------------------------------------
(* The properties.                                                         *)

\* The five fatal errors, by the message of the handler that ends the run.
FatalMsgs == {MsgYamlNotFound, MsgYamlParse, MsgTemplateNotFound, MsgRender, MsgSaveHtml}

Done == pc = "done"

\* save_html returned: the HTML file holds the rendered markup.
HtmlSaved ==
  /\ "html" \in writes
  /\ pc # "save_write"
  /\ MsgSaveHtml \notin stderr

\* C1: a run ends with exit status 1 when one of the five fatal errors
\* (missing data file, bad data syntax, missing template, render error, HTML
\* write error) occurred and with exit status 0 when none did.
ExitCodeByFatalError ==
  Done => exitCode = (IF stderr \cap FatalMsgs # {} THEN 1 ELSE 0)

\* C2: with a missing data file the run exits non-zero and writes nothing to
\* the filesystem; with a data file of invalid syntax it exits non-zero and
\* render_template is never called.
LoadFailureStopsRun ==
  /\ dataFile.st = "missing" =>
       /\ writes = {}
       /\ htmlFile = htmlPrev
       /\ pdfFile = Absent /\ tmpPdfFile = Absent
       /\ pc \in {"load_yaml", "done"}
       /\ (Done => exitCode # 0)
  /\ (dataFile.st = "file" /\ dataFile.text = "invalid") =>
       /\ renderCalls = 0
       /\ pc \in {"load_yaml", "done"}
       /\ (Done => exitCode # 0)

LoadFailureWitness ==
  /\ Done
  /\ dataFile.st = "missing"
  /\ exitCode = 1
  /\ MsgYamlNotFound \in stderr
  /\ tempDir = "absent" /\ exportDir = "absent"
  /\ cmdline.pdfForm = "novalue" /\ cmdline.output = ""

\* C3: a run in which the HTML was saved and --pdf was given exits 0,
\* whatever happens in the PDF step.
PdfStepNeverFails ==
  (Done /\ HtmlSaved /\ cmdline.pdfForm # "absent") => exitCode = 0

\* C4: --pdf with no value gives ./export/<data-basename>.pdf and creates
\* ./export; --pdf PATH gives PATH as it is, for every PATH, and creates no
\* directory; without --pdf no export is attempted.
PdfDestination ==
  (HtmlSaved /\ pc # "pdf") =>
    /\ (cmdline.pdfForm = "novalue" /\ MsgTraceback \notin stderr) =>
         /\ pdf_path = MkPath("export", PathOf(cmdline.data).stem, ".pdf")
         /\ exportDir = "dir"
    /\ cmdline.pdfForm = "explicit" =>
         /\ pdf_path = PathOf(cmdline.pdfValue)
         /\ "exportdir" \notin writes
    /\ cmdline.pdfForm = "absent" =>
         /\ pdf_path = NoPath
         /\ probed = <<>> /\ browserRuns = 0
         /\ exitCode = 0

\* add_pdf_metadata ran to its end: the patched file replaced the original.
Patched == Done /\ "replace" \in writes

\* C5: after a successful patch the PDF at pdf_path has Title "<name> - <title>",
\* Author <name>, Subject meta.description or "<name> - <title>", Keywords
\* meta.keywords or "", with "Resume" for an absent name or title.
PatchedMetadata ==
  Patched =>
    LET D     == dataFile.map
        name  == IF "name" \in DOMAIN D THEN D["name"].s ELSE "Resume"
        title == IF "title" \in DOMAIN D THEN D["title"].s ELSE "Resume"
        meta  == IF "meta" \in DOMAIN D THEN D["meta"].m ELSE NoKeys
    IN  /\ pdfFile.kind = "pdf"
        /\ pdfFile.info.Title = name \o " - " \o title
        /\ pdfFile.info.Author = name
        /\ pdfFile.info.Subject =
             (IF "description" \in DOMAIN meta THEN meta["description"].s
              ELSE name \o " - " \o title)
        /\ pdfFile.info.Keywords =
             (IF "keywords" \in DOMAIN meta THEN meta["keywords"].s ELSE "")
        /\ (name = "Jane Doe" /\ title = "Engineer") =>
             /\ pdfFile.info.Title = "Jane Doe - Engineer"
             /\ pdfFile.info.Author = "Jane Doe"

PatchedMetadataWitness ==
  /\ Patched
  /\ "name" \in DOMAIN dataFile.map
  /\ "title" \notin DOMAIN dataFile.map
  /\ "meta" \in DOMAIN dataFile.map
  /\ pdfFile.info.Title = "Jane Doe - Resume"
  /\ pdfFile.info.Subject = "Resume of Jane"
  /\ pdfFile.info.Keywords = ""

\* C6: at process exit the HTML destination is untouched or holds the
\* complete rendered markup, never an empty or truncated file.
HtmlNeverPartial ==
  Done => \/ htmlFile = htmlPrev
          \/ (html_content # "" /\ htmlFile = html_content)

\* C7: whenever load_yaml returns, the value is a mapping; otherwise the run
\* ended with one of the loader's two fatal errors.
LoaderReturnsMapping ==
  /\ data.t # "unset" => data.t = "map"
  /\ (Done /\ data.t = "unset") => stderr \cap {MsgYamlNotFound, MsgYamlParse} # {}

\* The patched PDF: the pages of the original with the metadata of the data.
PatchedPdf == Pdf(origPdf.pages, Metadata(data.m))

\* C8: from the entry of add_pdf_metadata on, the file at pdf_path is the
\* original or the complete patched PDF; when a step of the patch fails the
\* original is unchanged, the warning is printed and the run goes on to exit 0.
MetadataPatchAtomic ==
  metaRuns > 0 =>
    /\ pdfFile = origPdf \/ (origPdf.kind = "pdf" /\ pdfFile = PatchedPdf)
    /\ pdfFile.kind # "truncated" \/ origPdf.kind = "truncated"
    /\ (Done /\ MsgMetadata \in stderr) => (pdfFile = origPdf /\ exitCode = 0)
    /\ (Done /\ MsgMetadata \notin stderr) => (pdfFile = PatchedPdf /\ exitCode = 0)

MetadataPatchWitness ==
  /\ Done
  /\ metaRuns = 1
  /\ MsgMetadata \in stderr
  /\ origPdf.kind = "pdf"
  /\ pdfFile = origPdf
  /\ tmpPdfFile = Truncated

\* C9: add_pdf_metadata runs at most once, only after the browser returned
\* zero, and always when it did; a non-zero return code is reported and
\* nothing of the patch happens; with no browser found no subprocess runs.
MetadataIffBrowserOk ==
  /\ metaRuns <= 1 /\ browserRuns <= 1
  /\ metaRuns = 1 => (browserRuns = 1 /\ browserRc = 0)
  /\ (Done /\ browserRuns = 1 /\ browserRc = 0) => metaRuns = 1
  /\ browserRc = 1 =>
       /\ MsgConvert \in stderr
       /\ metaRuns = 0
       /\ tmpPdfFile = Absent
       /\ "replace" \notin writes
  /\ MsgNoBrowser \in stderr => (browserRuns = 0 /\ metaRuns = 0)
  /\ browserRuns = 0 => metaRuns = 0

MetadataIffBrowserWitness ==
  /\ Done
  /\ browserRuns = 1
  /\ browserRc = 1
  /\ pdfFile = Truncated
  /\ metaRuns = 0

\* The index in chromium_bins of the first installed candidate; 0 for none.
FirstInstalled ==
  LET found == {k \in 1..Len(chromium_bins) : chromium_bins[k] \in installed}
  IN  IF found = {} THEN 0 ELSE CHOOSE k \in found : \A j \in found : k <= j

====
